---------------------------- MODULE Spec2Model ----------------------------
(***************************************************************************)
(* Therapist Office API: settings loading (backend/config.py), the engine, *)
(* its connection pool, the get_db session dependency and the connectivity *)
(* probe (therapist-app-deploy/backend/database.py), and the FastAPI       *)
(* process with its startup hook and three endpoints (backend/main.py).    *)
(*                                                                         *)
(* The process is a state machine: module import (Settings(), engine, app),*)
(* the startup event, then request handling.  Requests in flight are kept  *)
(* as a bag of records, one record per get_db call.                        *)
(***************************************************************************)
EXTENDS Integers, Sequences, FiniteSets, Bags, TLC

VARIABLES
    environ,      \* os.environ: field name -> raw string, for the names that are set
    dotenv,       \* the ".env" file: field name -> raw string
    phase,        \* where the process is in its life
    settings,     \* config.settings: field name -> typed value (<<>> until built)
    engine,       \* database.engine: its construction parameters (<<>> until built)
    app,          \* main.app: title, version, CORS origins (<<>> until built)
    idle,         \* QueuePool: connections sitting in the pool's queue
    overflow,     \* QueuePool._overflow: connections created minus pool_size
    dbUp,         \* whether the Oracle listener accepts connections right now
    queryable,    \* whether "SELECT 1 FROM DUAL" given as a plain string executes
    log,          \* log records written while importing and starting
    probe,        \* the test_connection() calls so far and how the last one went
    inflight,     \* bag of /health requests between get_db's entry and its exit
    last          \* the request that completed most recently

vars == <<environ, dotenv, phase, settings, engine, app, idle, overflow, dbUp,
          queryable, log, probe, inflight, last>>

-----------------------------------------------------------------------------
(* Bounds of the model *)

\* Requests in flight at once in the full-lifecycle specification.
MaxInFlight == 2

\* Requests in flight at once in the pool-load specification: two more than
\* the pool can serve.
MaxLoad == 32

-----------------------------------------------------------------------------
(* backend/config.py *)

StrFields ==
    {"DATABASE_HOST", "DATABASE_SERVICE", "DATABASE_USER", "DATABASE_PASSWORD",
     "SECRET_KEY", "ALGORITHM", "OCI_COMPARTMENT_ID", "OCI_REGION",
     "OCI_CONFIG_FILE", "APP_NAME", "CORS_ORIGINS"}

IntFields == {"DATABASE_PORT", "ACCESS_TOKEN_EXPIRE_MINUTES"}

BoolFields == {"DEBUG"}

Fields == StrFields \cup IntFields \cup BoolFields

\* The fields declared without a default.
RequiredFields == {"DATABASE_PASSWORD", "SECRET_KEY", "OCI_COMPARTMENT_ID"}

OptionalFields == Fields \ RequiredFields

DEFAULT_DATABASE_PORT == 1521

DEFAULT_ACCESS_TOKEN_EXPIRE_MINUTES == 30

\* The declared defaults.
Default ==
    [f \in OptionalFields |->
        CASE f = "DATABASE_HOST"               -> "oracle-db"
          [] f = "DATABASE_PORT"               -> DEFAULT_DATABASE_PORT
          [] f = "DATABASE_SERVICE"            -> "FREEPDB1"
          [] f = "DATABASE_USER"               -> "therapist_app"
          [] f = "ALGORITHM"                   -> "HS256"
          [] f = "ACCESS_TOKEN_EXPIRE_MINUTES" -> DEFAULT_ACCESS_TOKEN_EXPIRE_MINUTES
          [] f = "OCI_REGION"                  -> "us-ashburn-1"
          [] f = "OCI_CONFIG_FILE"             -> "/app/.oci/config"
          [] f = "APP_NAME"                    -> "Therapist Office App"
          [] f = "DEBUG"                       -> FALSE
          [] f = "CORS_ORIGINS"                -> <<"http://localhost:3000">>]

\* CORS_ORIGINS is kept as a sequence of tokens in which "," is the comma;
\* every other string field is an atomic string.
\* A raw integer is a sequence of characters; it is valid when it is a
\* non-empty run of decimal digits.
DigitChars == <<"0", "1", "2", "3", "4", "5", "6", "7", "8", "9">>

IsDigit(c) == \E i \in 1..Len(DigitChars) : DigitChars[i] = c

DigitValue(c) == (CHOOSE i \in 1..Len(DigitChars) : DigitChars[i] = c) - 1

ValidInt(raw) == Len(raw) > 0 /\ \A i \in 1..Len(raw) : IsDigit(raw[i])

RECURSIVE ParseInt(_)
ParseInt(raw) ==
    IF Len(raw) = 0 THEN 0
    ELSE 10 * ParseInt(SubSeq(raw, 1, Len(raw) - 1)) + DigitValue(raw[Len(raw)])

\* The spellings pydantic reads as a boolean.
TrueWords == {"1", "true", "t", "yes", "y", "on"}

FalseWords == {"0", "false", "f", "no", "n", "off"}

ValidBool(raw) == raw \in TrueWords \cup FalseWords

ParseBool(raw) == raw \in TrueWords

\* The settings file read in preference to the environment.
RawValue_file_first(env, file, f) == IF f \in DOMAIN file THEN file[f] ELSE env[f]

\* A field is supplied when the environment or the settings file names it;
\* the environment wins over the file.
Supplied(env, file, f) == f \in DOMAIN env \/ f \in DOMAIN file

RawValue(env, file, f) == IF f \in DOMAIN env THEN env[f] ELSE file[f]

\* The value a supplied field is validated into.
Coerce(f, raw) ==
    IF f \in IntFields THEN ParseInt(raw)
    ELSE IF f \in BoolFields THEN ParseBool(raw)
    ELSE raw

WellTyped(f, raw) ==
    IF f \in IntFields THEN ValidInt(raw)
    ELSE IF f \in BoolFields THEN ValidBool(raw)
    ELSE TRUE

\* The fields for which Settings() reports a validation error.
MissingFields(env, file) ==
    {f \in RequiredFields : ~Supplied(env, file, f)}

MistypedFields(env, file) ==
    {f \in Fields : Supplied(env, file, f) /\ ~WellTyped(f, RawValue(env, file, f))}

SettingsValid(env, file) ==
    MissingFields(env, file) = {} /\ MistypedFields(env, file) = {}

\* Settings(): the validated object.
Settings(env, file) ==
    [f \in Fields |->
        IF Supplied(env, file, f) THEN Coerce(f, RawValue(env, file, f))
        ELSE Default[f]]

-----------------------------------------------------------------------------
(* The environments the process is started in: the baseline sets exactly the
   required fields in os.environ; every other case changes one field, in
   os.environ (removed, or set), in the .env file (set), or in both. *)

BaselineEnviron == [f \in RequiredFields |-> "s3cret"]

EnvValues(f) ==
    IF f \in IntFields THEN {<<"1", "5", "2", "2">>, <<"1", "5", "x">>}
    ELSE IF f \in BoolFields THEN {"true", "maybe"}
    ELSE IF f = "CORS_ORIGINS" THEN {<<"https://a.example", ",", "https://b.example">>}
    ELSE {"from-env"}

FileValues(f) ==
    IF f \in IntFields THEN {<<"9", "0">>}
    ELSE IF f \in BoolFields THEN {"on"}
    ELSE IF f = "CORS_ORIGINS" THEN {<<"https://c.example">>}
    ELSE {"from-file"}

Without(env, f) == [g \in (DOMAIN env) \ {f} |-> env[g]]

EnvironCases(f) ==
    {BaselineEnviron, Without(BaselineEnviron, f)}
        \cup {(f :> v) @@ BaselineEnviron : v \in EnvValues(f)}

FileCases(f) == {<<>>} \cup {(f :> w) : w \in FileValues(f)}

StartCases == UNION {EnvironCases(f) \X FileCases(f) : f \in Fields}

-----------------------------------------------------------------------------
(* therapist-app-deploy/backend/database.py: the engine and its QueuePool *)

pool_size == 10

max_overflow == 20

\* DATABASE_URL, as the parts the f-string joins.
DATABASE_URL(s) ==
    <<"oracle+oracledb://", s["DATABASE_USER"], ":", s["DATABASE_PASSWORD"], "@",
      s["DATABASE_HOST"], ":", s["DATABASE_PORT"], "/", s["DATABASE_SERVICE"]>>

create_engine(s) ==
    [url |-> DATABASE_URL(s), echo |-> s["DEBUG"], pool_pre_ping |-> TRUE,
     pool_size |-> pool_size, max_overflow |-> max_overflow]

\* QueuePool.checkedout(): connections handed out and not yet returned.
CheckedOut == pool_size - idle + overflow

Capacity == pool_size + max_overflow

\* The overflow test taken one too far.
PoolHasRoom_off_by_one == idle > 0 \/ overflow <= max_overflow

\* The pool built without max_overflow: no connection beyond pool_size.
PoolHasRoom_no_overflow == idle > 0 \/ overflow < 0

\* QueuePool._do_get: a queued connection is reused, else a new one may be
\* opened while _overflow < max_overflow; otherwise the caller waits.
PoolHasRoom == idle > 0 \/ overflow < max_overflow

\* With pool_pre_ping a connection is handed out only if the database answers:
\* a stale queued connection is re-opened, a new one is opened.
ConnectSucceeds == dbUp

\* A checkout that succeeds (PoolHasRoom /\ ConnectSucceeds).
PoolCheckout ==
    IF idle > 0
    THEN idle' = idle - 1 /\ overflow' = overflow
    ELSE idle' = idle /\ overflow' = overflow + 1

\* QueuePool._do_return_conn: back into the queue, or closed when it is full.
PoolCheckin ==
    IF idle < pool_size
    THEN idle' = idle + 1 /\ overflow' = overflow
    ELSE idle' = idle /\ overflow' = overflow - 1

\* Executing the string "SELECT 1 FROM DUAL" on an open connection.
QuerySucceeds == dbUp /\ queryable

QueryError == IF dbUp THEN "ObjectNotExecutableError" ELSE "OperationalError"

ErrorClasses == {"OperationalError", "TimeoutError", "ObjectNotExecutableError"}

-----------------------------------------------------------------------------
(* Process start: the imports of backend/main.py *)

NoRequest == [kind |-> "none"]

NoProbe == [runs |-> 0, connected |-> FALSE, executed |-> FALSE, result |-> "none"]

InitCommon ==
    /\ settings = <<>>
    /\ engine = <<>>
    /\ app = <<>>
    /\ idle = 0
    /\ overflow = -pool_size
    /\ log = <<>>
    /\ probe = NoProbe
    /\ inflight = EmptyBag
    /\ last = NoRequest

Init ==
    /\ \E c \in StartCases : environ = c[1] /\ dotenv = c[2]
    /\ phase = "boot"
    /\ dbUp \in BOOLEAN
    /\ queryable \in BOOLEAN
    /\ InitCommon

\* Settings() wrapped so that a validation error is swallowed and the import
\* goes on without a settings object.
LoadSettings_swallow ==
    /\ phase = "boot"
    /\ settings' = IF SettingsValid(environ, dotenv) THEN Settings(environ, dotenv)
                   ELSE settings
    /\ phase' = "configured"
    /\ UNCHANGED <<environ, dotenv, engine, app, idle, overflow, dbUp, queryable,
                   log, probe, inflight, last>>

\* config.py line 31, run by "from config import settings".
LoadSettings ==
    /\ phase = "boot"
    /\ IF SettingsValid(environ, dotenv)
       THEN /\ settings' = Settings(environ, dotenv)
            /\ phase' = "configured"
       ELSE /\ settings' = settings
            /\ phase' = "config_failed"
    /\ UNCHANGED <<environ, dotenv, engine, app, idle, overflow, dbUp, queryable,
                   log, probe, inflight, last>>

\* database.py lines 9-27, run by "from database import get_db, test_connection":
\* the engine is built from the settings; no connection is opened yet.
BuildEngine ==
    /\ phase = "configured"
    /\ engine' = create_engine(settings)
    /\ phase' = "engine_built"
    /\ UNCHANGED <<environ, dotenv, settings, app, idle, overflow, dbUp, queryable,
                   log, probe, inflight, last>>

\* str.split(","): the tokens between the commas.
RECURSIVE Split(_)
Split(tokens) ==
    IF \E i \in 1..Len(tokens) : tokens[i] = ","
    THEN LET i == CHOOSE j \in 1..Len(tokens) :
                      tokens[j] = "," /\ \A k \in 1..(j - 1) : tokens[k] # ","
         IN  <<SubSeq(tokens, 1, i - 1)>> \o Split(SubSeq(tokens, i + 1, Len(tokens)))
    ELSE <<tokens>>

\* main.py lines 16-30: the FastAPI app and its CORS middleware.
FastAPI(s) ==
    [title |-> s["APP_NAME"], version |-> "1.0.0",
     allow_origins |-> Split(s["CORS_ORIGINS"])]

\* The split origins written back onto the settings object.
BuildApp_rebinds_origins ==
    /\ phase = "engine_built"
    /\ app' = FastAPI(settings)
    /\ settings' = [settings EXCEPT !["CORS_ORIGINS"] = Split(@)]
    /\ phase' = "app_built"
    /\ UNCHANGED <<environ, dotenv, engine, idle, overflow, dbUp,
                   queryable, log, probe, inflight, last>>

BuildApp ==
    /\ phase = "engine_built"
    /\ app' = FastAPI(settings)
    /\ phase' = "app_built"
    /\ UNCHANGED <<environ, dotenv, settings, engine, idle, overflow, dbUp,
                   queryable, log, probe, inflight, last>>

-----------------------------------------------------------------------------
(* The startup event and test_connection *)

LogRecord(logger, level, msg) == [logger |-> logger, level |-> level, msg |-> msg]

\* main.py line 35.
StartupBegin ==
    /\ phase = "app_built"
    /\ log' = Append(log, LogRecord("main", "INFO", "Starting Therapist Office API..."))
    /\ phase' = "starting"
    /\ UNCHANGED <<environ, dotenv, settings, engine, app, idle, overflow, dbUp,
                   queryable, probe, inflight, last>>

\* test_connection with "except OperationalError" in place of "except Exception".
test_connection_catches_operational_only(exc) == exc = "OperationalError"

\* "except Exception" in test_connection: the error classes it catches.
test_connection_catches(exc) == exc \in ErrorClasses

\* An error inside test_connection's try block: caught, logged and turned
\* into False; an error it does not catch leaves startup_event too.
ProbeRaise(exc, p) ==
    IF test_connection_catches(exc)
    THEN /\ log' = Append(log, LogRecord("database", "ERROR", "Database connection failed"))
         /\ probe' = [p EXCEPT !.result = "False"]
         /\ phase' = "probe_returned"
    ELSE /\ log' = log
         /\ probe' = [p EXCEPT !.result = "raised"]
         /\ phase' = "startup_failed"

\* test_connection, database.py line 40: engine.connect().
ProbeConnect ==
    /\ phase = "starting"
    /\ LET p == [probe EXCEPT !.runs = @ + 1]
       IN  IF PoolHasRoom /\ ConnectSucceeds
           THEN /\ PoolCheckout
                /\ probe' = [p EXCEPT !.connected = TRUE]
                /\ phase' = "probe_connected"
                /\ log' = log
           ELSE /\ ProbeRaise(IF PoolHasRoom THEN "OperationalError" ELSE "TimeoutError", p)
                /\ UNCHANGED <<idle, overflow>>
    /\ UNCHANGED <<environ, dotenv, settings, engine, app, dbUp, queryable,
                   inflight, last>>

\* test_connection, database.py lines 41-46: the query, the end of the with
\* block (the connection goes back to the pool) and the return.
ProbeExecute ==
    /\ phase = "probe_connected"
    /\ PoolCheckin
    /\ IF QuerySucceeds
       THEN /\ log' = Append(log, LogRecord("database", "INFO", "Database connection successful"))
            /\ probe' = [probe EXCEPT !.executed = TRUE, !.result = "True"]
            /\ phase' = "probe_returned"
       ELSE ProbeRaise(QueryError, probe)
    /\ UNCHANGED <<environ, dotenv, settings, engine, app, dbUp, queryable,
                   inflight, last>>

\* main.py lines 36-39: the branch on what test_connection returned.
startup_log(result) ==
    IF result = "True"
    THEN LogRecord("main", "INFO", "Database connection verified")
    ELSE LogRecord("main", "ERROR", "Database connection failed!")

\* startup_event raising when the probe returned False.
StartupFinish_abort_on_failure ==
    /\ phase = "probe_returned"
    /\ log' = Append(log, startup_log(probe.result))
    /\ phase' = IF probe.result = "True" THEN "serving" ELSE "startup_failed"
    /\ UNCHANGED <<environ, dotenv, settings, engine, app, idle, overflow, dbUp,
                   queryable, probe, inflight, last>>

StartupFinish ==
    /\ phase = "probe_returned"
    /\ log' = Append(log, startup_log(probe.result))
    /\ phase' = "serving"
    /\ UNCHANGED <<environ, dotenv, settings, engine, app, idle, overflow, dbUp,
                   queryable, probe, inflight, last>>

\* The database going away or coming back.
DbFlip ==
    /\ dbUp' = ~dbUp
    /\ UNCHANGED <<environ, dotenv, phase, settings, engine, app, idle, overflow,
                   queryable, log, probe, inflight, last>>

-----------------------------------------------------------------------------
(* The endpoints of backend/main.py *)

JSONResponse(code, body) == [status_code |-> code, body |-> body]

\* raise HTTPException(status_code=..., detail=...)
HTTPException(code, detail) == JSONResponse(code, [detail |-> detail])

\* What the framework answers when a handler lets an exception through.
InternalServerError == JSONResponse(500, [detail |-> "Internal Server Error"])

NoResponse == JSONResponse(0, [detail |-> "pending"])

\* GET /, main.py lines 41-47.
root ==
    JSONResponse(200, [message |-> "Therapist Office API", version |-> "1.0.0",
                       status |-> "running"])

Root ==
    /\ phase = "serving"
    /\ last' = [kind |-> "root", response |-> root]
    /\ UNCHANGED <<environ, dotenv, phase, settings, engine, app, idle, overflow,
                   dbUp, queryable, log, probe, inflight>>

\* /api/info reporting on the database as well.
api_info_db_dependent ==
    IF dbUp /\ PoolHasRoom
    THEN JSONResponse(200, [app_name |-> settings["APP_NAME"], version |-> "1.0.0",
                            database_host |-> settings["DATABASE_HOST"],
                            oci_region |-> settings["OCI_REGION"]])
    ELSE HTTPException(503, "Service unavailable")

\* GET /api/info, main.py lines 67-75.
api_info ==
    JSONResponse(200, [app_name |-> settings["APP_NAME"], version |-> "1.0.0",
                       database_host |-> settings["DATABASE_HOST"],
                       oci_region |-> settings["OCI_REGION"]])

ApiInfo ==
    /\ phase = "serving"
    /\ last' = [kind |-> "api_info", response |-> api_info]
    /\ UNCHANGED <<environ, dotenv, phase, settings, engine, app, idle, overflow,
                   dbUp, queryable, log, probe, inflight>>

\* get_db up to its yield, database.py lines 30-33: SessionLocal() makes a
\* session bound to the engine; it takes no connection until it is used.
SessionLocal ==
    [kind |-> "health", stage |-> "acquired", conn |-> FALSE,
     error |-> "none", errlog |-> 0, closes |-> 0, response |-> NoResponse]

HealthAcquire(limit) ==
    /\ phase = "serving"
    /\ BagCardinality(inflight) < limit
    /\ inflight' = inflight (+) SetToBag({SessionLocal})
    /\ UNCHANGED <<environ, dotenv, phase, settings, engine, app, idle, overflow,
                   dbUp, queryable, log, probe, last>>

Replace(r, q) == (inflight (-) SetToBag({r})) (+) SetToBag({q})

\* health_check with "except OperationalError" in place of "except Exception".
health_check_catches_operational_only(exc) == exc = "OperationalError"

\* "except Exception" in health_check: the error classes it catches.
health_check_catches(exc) == exc \in ErrorClasses

\* health_check, main.py lines 55-59: the query returned.
HealthReturn(r) ==
    [r EXCEPT !.stage = "handled",
              !.response = JSONResponse(200, [status |-> "healthy",
                                              database |-> "connected",
                                              version |-> "1.0.0"])]

\* health_check, main.py lines 60-65: db.execute raised exc.
HealthRaise(r, exc) ==
    IF health_check_catches(exc)
    THEN [r EXCEPT !.stage = "handled", !.error = exc, !.errlog = @ + 1,
                   !.response = HTTPException(503, "Service unavailable")]
    ELSE [r EXCEPT !.stage = "handled", !.error = exc,
                   !.response = InternalServerError]

\* db.execute once the pool has room: the session checks a connection out,
\* keeps it until close(), and runs the query on it.
SessionExecute(r) ==
    IF ConnectSucceeds
    THEN /\ PoolCheckout
         /\ LET q == [r EXCEPT !.conn = TRUE]
            IN  inflight' = Replace(r, IF QuerySucceeds THEN HealthReturn(q)
                                       ELSE HealthRaise(q, QueryError))
    ELSE /\ UNCHANGED <<idle, overflow>>
         /\ inflight' = Replace(r, HealthRaise(r, "OperationalError"))

\* health_check, main.py line 54: db.execute("SELECT 1 FROM DUAL").  With the
\* pool at its limit the call blocks inside the pool.
HealthExecute ==
    /\ \E r \in BagToSet(inflight) :
          /\ r.stage = "acquired"
          /\ IF PoolHasRoom
             THEN SessionExecute(r)
             ELSE /\ inflight' = Replace(r, [r EXCEPT !.stage = "waiting"])
                  /\ UNCHANGED <<idle, overflow>>
    /\ UNCHANGED <<environ, dotenv, phase, settings, engine, app, dbUp, queryable,
                   log, probe, last>>

\* A blocked db.execute goes on once a connection has been given back.
HealthWaitAcquire ==
    /\ \E r \in BagToSet(inflight) :
          /\ r.stage = "waiting"
          /\ PoolHasRoom
          /\ SessionExecute(r)
    /\ UNCHANGED <<environ, dotenv, phase, settings, engine, app, dbUp, queryable,
                   log, probe, last>>

\* A blocked db.execute gives up after the pool's timeout: the pool raises
\* its TimeoutError.
HealthWaitTimeout ==
    /\ \E r \in BagToSet(inflight) :
          /\ r.stage = "waiting"
          /\ ~PoolHasRoom
          /\ inflight' = Replace(r, HealthRaise(r, "TimeoutError"))
    /\ UNCHANGED <<environ, dotenv, phase, settings, engine, app, idle, overflow,
                   dbUp, queryable, log, probe, last>>

\* get_db's "finally", database.py lines 34-35: whether db.close() runs, by
\* how the code that used the session ended ("return" or "raise").
get_db_closes_on_return_only(ending) == ending = "return"

get_db_closes(ending) == ending \in {"return", "raise"}

Ending(r) == IF r.error = "none" THEN "return" ELSE "raise"

\* get_db after its yield: the request ends, db.close() gives the session's
\* connection back to the pool.
HealthClose ==
    /\ \E r \in BagToSet(inflight) :
          /\ r.stage = "handled"
          /\ inflight' = inflight (-) SetToBag({r})
          /\ IF get_db_closes(Ending(r))
             THEN /\ last' = [r EXCEPT !.closes = @ + 1]
                  /\ IF r.conn THEN PoolCheckin ELSE UNCHANGED <<idle, overflow>>
             ELSE /\ last' = r
                  /\ UNCHANGED <<idle, overflow>>
    /\ UNCHANGED <<environ, dotenv, phase, settings, engine, app, dbUp, queryable,
                   log, probe>>

-----------------------------------------------------------------------------
(* The whole life of the process, a few requests at a time *)

Next ==
    \/ LoadSettings
    \/ BuildEngine
    \/ BuildApp
    \/ StartupBegin
    \/ ProbeConnect
    \/ ProbeExecute
    \/ StartupFinish
    \/ DbFlip
    \/ Root
    \/ ApiInfo
    \/ HealthAcquire(MaxInFlight)
    \/ HealthExecute
    \/ HealthClose

Spec == Init /\ [][Next]_vars

-----------------------------------------------------------------------------
(* The serving process under load: started with the baseline settings and a
   successful probe, with enough requests in flight to fill the pool.  The
   database is up or down for the whole run. *)

\* The log and the probe record the startup event leaves behind when the
\* database was up: the probe connected, and its query ran or did not.
StartedLog ==
    IF queryable
    THEN <<LogRecord("main", "INFO", "Starting Therapist Office API..."),
           LogRecord("database", "INFO", "Database connection successful"),
           LogRecord("main", "INFO", "Database connection verified")>>
    ELSE <<LogRecord("main", "INFO", "Starting Therapist Office API..."),
           LogRecord("database", "ERROR", "Database connection failed"),
           LogRecord("main", "ERROR", "Database connection failed!")>>

StartedProbe ==
    [runs |-> 1, connected |-> TRUE, executed |-> queryable,
     result |-> IF queryable THEN "True" ELSE "False"]

\* The state startup leaves: the probe's connection is back in the pool.
Started ==
    /\ environ = BaselineEnviron
    /\ dotenv = <<>>
    /\ settings = Settings(BaselineEnviron, <<>>)
    /\ engine = create_engine(Settings(BaselineEnviron, <<>>))
    /\ app = FastAPI(Settings(BaselineEnviron, <<>>))
    /\ phase = "serving"
    /\ idle = 1
    /\ overflow = 1 - pool_size
    /\ log = StartedLog
    /\ probe = StartedProbe
    /\ inflight = EmptyBag
    /\ last = NoRequest

InitLoad ==
    /\ dbUp \in BOOLEAN
    /\ queryable \in BOOLEAN
    /\ Started

NextLoad ==
    \/ Root
    \/ ApiInfo
    \/ HealthAcquire(MaxLoad)
    \/ HealthExecute
    \/ HealthWaitAcquire
    \/ HealthWaitTimeout
    \/ HealthClose

SpecLoad == InitLoad /\ [][NextLoad]_vars

-----------------------------------------------------------------------------
(* Observations used by the properties *)

\* The requests in flight at a given stage.
StageCount(stage) ==
    BagCardinality([r \in {x \in BagToSet(inflight) : x.stage = stage} |-> inflight[r]])

\* The sessions in flight that hold a connection.
Holding ==
    BagCardinality([r \in {x \in BagToSet(inflight) : x.conn} |-> inflight[r]])

\* The requests in flight whose db.execute ended in the pool's TimeoutError.
TimedOut ==
    BagCardinality([r \in {x \in BagToSet(inflight) : x.error = "TimeoutError"}
                        |-> inflight[r]])

LogCount(logger, level) ==
    Cardinality({i \in 1..Len(log) : log[i].logger = logger /\ log[i].level = level})

RequestSeen == inflight # EmptyBag \/ last # NoRequest

-----------------------------------------------------------------------------
(* C1 *)

\* C1: every session made by get_db is closed exactly once, and only after
\* the code using it has finished: a session still in flight has not been
\* closed, and a request that has ended, by return or by an exception (the
\* 503 of health_check included), has had close() called once, after the
\* handler was done.
C1_SessionClosedExactlyOnce ==
    /\ \A r \in BagToSet(inflight) : r.closes = 0
    /\ last.kind = "health" => last.closes = 1 /\ last.stage = "handled"

\* A request whose handler raised the 503 has ended with its session closed.
C1_Witness ==
    /\ last.kind = "health"
    /\ last.error # "none"
    /\ last.response.status_code = 503
    /\ last.conn
    /\ last.closes = 1

-----------------------------------------------------------------------------
(* C2 *)

\* C2: test_connection never raises; it returns True exactly when the
\* connection was opened and the query ran, and a failure gives False with
\* one error record of the database logger.
C2_ProbeNeverRaises ==
    /\ phase # "startup_failed"
    /\ probe.result \in {"none", "True", "False"}
    /\ (probe.result = "True") <=> (probe.connected /\ probe.executed)
    /\ probe.result = "False" => LogCount("database", "ERROR") = 1
    /\ probe.result = "True" =>
          LogCount("database", "ERROR") = 0 /\ LogCount("database", "INFO") = 1

\* The probe opened a connection, the query failed, and it returned False.
C2_Witness ==
    probe.result = "False" /\ probe.connected /\ ~probe.executed

-----------------------------------------------------------------------------
(* C3 *)

HealthyAnswer ==
    [status_code |-> 200,
     body |-> [status |-> "healthy", database |-> "connected", version |-> "1.0.0"]]

UnavailableAnswer ==
    [status_code |-> 503, body |-> [detail |-> "Service unavailable"]]

Answered ==
    {r \in BagToSet(inflight) : r.stage = "handled"}
        \cup (IF last.kind = "health" THEN {last} ELSE {})

\* C3: GET /health answers 200 healthy/connected exactly when db.execute
\* succeeded, and 503 "Service unavailable" for every failure of it: the
\* database unreachable, the query rejected, or the pool exhausted.
C3_HealthAnswers ==
    \A r \in Answered :
        /\ r.error = "none" => r.conn /\ r.response = HealthyAnswer
        /\ r.error # "none" => r.response = UnavailableAnswer /\ r.errlog = 1

\* A request that met the exhausted pool has been answered 503.
C3_Witness ==
    /\ last.kind = "health"
    /\ last.error = "TimeoutError"
    /\ last.response.status_code = 503

-----------------------------------------------------------------------------
(* C4 *)

\* C4: the connections checked out of the pool at one time never exceed
\* pool_size + max_overflow = 30, and each is held by one session in flight
\* or by the startup probe.
C4_PoolBound ==
    /\ pool_size + max_overflow = 30
    /\ CheckedOut >= 0
    /\ CheckedOut <= pool_size + max_overflow
    /\ CheckedOut = Holding + (IF phase = "probe_connected" THEN 1 ELSE 0)

\* All thirty connections are out and a further request is blocked.
C4_Witness == CheckedOut = 30 /\ StageCount("waiting") > 0 /\ last.kind = "health"

-----------------------------------------------------------------------------
(* C5 *)

\* A step in which a db.execute starts.
ExecuteStarts == StageCount("acquired")' < StageCount("acquired")

\* A step in which a blocked db.execute stops waiting.
WaitEnds == StageCount("waiting")' < StageCount("waiting")

\* What holds of every step, on either reading: below the limit a connection
\* is handed out at once; at the limit none is, and the call blocks; a
\* blocked call ends with a connection only after one was given back, and
\* with the pool's TimeoutError only while all thirty are still out.
C5_Steps ==
    /\ ExecuteStarts /\ CheckedOut < Capacity /\ dbUp =>
          /\ CheckedOut' = CheckedOut + 1
          /\ UNCHANGED StageCount("waiting")
    /\ ExecuteStarts /\ CheckedOut = Capacity =>
          /\ CheckedOut' = CheckedOut
          /\ StageCount("waiting")' = StageCount("waiting") + 1
    /\ CheckedOut = Capacity => CheckedOut' <= Capacity
    /\ WaitEnds /\ CheckedOut < Capacity /\ dbUp =>
          CheckedOut' = CheckedOut + 1 /\ UNCHANGED TimedOut
    /\ WaitEnds /\ CheckedOut = Capacity =>
          CheckedOut' = CheckedOut /\ TimedOut' = TimedOut + 1
    /\ TimedOut' > TimedOut => WaitEnds /\ CheckedOut = Capacity

\* C5 (as amended): up to thirty concurrent acquisitions get their connection
\* at once; the next one, made while all thirty are held, blocks in the pool,
\* and then either gets a connection once one is given back or fails with
\* the pool's TimeoutError while none has been.
C5_BlocksThenAcquiresOrTimesOut == [][C5_Steps]_vars

\* Thirty connections are out, one blocked request has timed out and
\* another is still blocked.
C5_Witness ==
    CheckedOut = Capacity /\ TimedOut > 0 /\ StageCount("waiting") > 0

\* C5 (original): as above, and which of the two happens is the same on
\* every run: once a blocked acquisition has failed with pool exhaustion, no
\* blocked acquisition gets a connection by waiting.
C5_SameOutcomeEveryRun ==
    [][C5_Steps /\ ~(TimedOut > 0 /\ WaitEnds /\ CheckedOut' = CheckedOut + 1)]_vars

-----------------------------------------------------------------------------
(* C6 *)

\* C6: with a required field absent from the environment and the settings
\* file, Settings() fails: the process never gets past the import of config,
\* no settings object exists (no default is substituted), no engine and no
\* app are built, and no request is ever accepted.
C6_MissingRequiredStopsStart ==
    (\E f \in RequiredFields : f \notin DOMAIN environ /\ f \notin DOMAIN dotenv) =>
        /\ phase \in {"boot", "config_failed"}
        /\ settings = <<>>
        /\ engine = <<>>
        /\ app = <<>>
        /\ ~RequestSeen

\* Settings() has failed for want of OCI_COMPARTMENT_ID.
C6_Witness ==
    /\ phase = "config_failed"
    /\ "OCI_COMPARTMENT_ID" \notin DOMAIN environ
    /\ "OCI_COMPARTMENT_ID" \notin DOMAIN dotenv

-----------------------------------------------------------------------------
(* C7 *)

StartupResultRecords ==
    {i \in 1..Len(log) :
        /\ log[i].logger = "main"
        /\ log[i].msg \in {"Database connection verified", "Database connection failed!"}}

\* C7: the probe runs once, before any request; whatever it returns, the
\* startup event completes and writes one record of the result (INFO for
\* True, ERROR for False), and the server goes on to serve.
C7_ProbeOnceNeverAborts ==
    /\ probe.runs <= 1
    /\ phase # "startup_failed"
    /\ RequestSeen => phase = "serving"
    /\ phase = "probe_returned" => ENABLED StartupFinish
    /\ phase = "serving" =>
          /\ probe.runs = 1
          /\ probe.result \in {"True", "False"}
          /\ Cardinality(StartupResultRecords) = 1
          /\ \A i \in StartupResultRecords :
                log[i].level = (IF probe.result = "True" THEN "INFO" ELSE "ERROR")
          /\ ENABLED Root

\* The probe returned False and a request has been served all the same.
C7_Witness ==
    phase = "serving" /\ probe.result = "False" /\ last.kind = "root"

-----------------------------------------------------------------------------
(* C8 *)

\* C8: GET / and GET /api/info answer 200 with a body fixed by the
\* configuration alone, whatever the state of the database and of the pool,
\* and serving them makes no session and takes no connection.
C8_NoDatabaseDependency ==
    /\ [](last.kind = "root" =>
            last.response =
                [status_code |-> 200,
                 body |-> [message |-> "Therapist Office API", version |-> "1.0.0",
                           status |-> "running"]])
    /\ [](last.kind = "api_info" =>
            last.response =
                [status_code |-> 200,
                 body |-> [app_name |-> settings["APP_NAME"], version |-> "1.0.0",
                           database_host |-> settings["DATABASE_HOST"],
                           oci_region |-> settings["OCI_REGION"]]])
    /\ [][last' # last /\ last'.kind \in {"root", "api_info"} =>
            UNCHANGED <<inflight, idle, overflow>>]_vars

\* /api/info has been served with the pool exhausted and a request blocked.
C8_Witness ==
    last.kind = "api_info" /\ CheckedOut = Capacity /\ StageCount("waiting") > 0

-----------------------------------------------------------------------------
(* C9 *)

\* The typed value of the raw strings the start cases supply.
TypedValue(f, raw) ==
    IF f \in IntFields
    THEN (IF raw = <<"1", "5", "2", "2">> THEN 1522
          ELSE IF raw = <<"9", "0">> THEN 90 ELSE -1)
    ELSE IF f \in BoolFields THEN raw \in {"true", "on"}
    ELSE raw

\* C9: once the settings are loaded, a field with a declared default holds
\* that default when neither the environment nor the settings file sets it,
\* and the supplied value (the environment's, when both set it) otherwise.
C9_DefaultsAndOverrides ==
    phase \notin {"boot", "config_failed"} =>
        \A f \in OptionalFields :
            settings[f] =
                IF f \in DOMAIN environ THEN TypedValue(f, environ[f])
                ELSE IF f \in DOMAIN dotenv THEN TypedValue(f, dotenv[f])
                ELSE Default[f]

\* DATABASE_PORT set in both places: the environment's 1522 is loaded, and
\* the fields left unset hold their defaults.
C9_Witness ==
    /\ phase = "configured"
    /\ "DATABASE_PORT" \in DOMAIN environ
    /\ "DATABASE_PORT" \in DOMAIN dotenv
    /\ settings["DATABASE_PORT"] = 1522
    /\ settings["ACCESS_TOKEN_EXPIRE_MINUTES"] = 30
    /\ settings["DEBUG"] = FALSE

-----------------------------------------------------------------------------
(* C10 *)

\* C10: once the settings object is built, no step of the process changes
\* any of its fields.
C10_SettingsReadOnly == [][phase # "boot" => settings' = settings]_vars

\* Every kind of operation has run on loaded settings: a /health request has
\* completed while another session is in flight.
C10_Witness ==
    /\ phase = "serving"
    /\ last.kind = "health"
    /\ inflight # EmptyBag
    /\ settings["APP_NAME"] = "from-env"

=============================================================================
